---- MODULE Spec2Model ----
(***************************************************************************)
(* Model of CUserSignDB (nonebot_plugin_farm/database/userSign.py): the    *)
(* daily sign-in transaction over the tables userSignLog and               *)
(* userSignSummary and the user ledger (exp, point).                       *)
(*                                                                         *)
(* A date string 'YYYY-MM-DD' is the tuple <<y, m, d>>; the empty string   *)
(* (the default of the signDate argument) is the empty tuple <<>>, and     *)
(* signDate[:7] is <<y, m>>.  The informational columns createdAt and      *)
(* updatedAt are left out.  Every call of sign is a process that moves     *)
(* from one await of the coroutine to the next.  All calls use the one     *)
(* connection cls.m_pDB: db is the storage as the connection shows it, the *)
(* writes of open transactions included, and begun[uid] is the transaction *)
(* that writes the rows of uid: empty, or those rows as they were at BEGIN.*)
(***************************************************************************)
EXTENDS Integers, Sequences, FiniteSets, TLC

VARIABLES db, begun, today, call, budget, accepted

vars == <<db, begun, today, call, budget, accepted>>

(* ------------------------------ bounds --------------------------------- *)

\* number of calendar days of the window the clock and the inputs range over
NumDays == 3

\* number of sign calls of one run
MaxCalls == 3

\* number of sign calls of one run whose calls overlap or meet storage faults
MaxHardCalls == 2

\* number of values a random.randint(a, b) is drawn from: the value i of
\* 0..RandSamples-1 is the point i/(RandSamples-1) of the way from a to b
RandSamples == 2

\* number of consecutive daily sign-ins, the last of them on the day before the
\* window, of the longest history a run starts from
MaxHistory == 30

\* first day of the window: the window crosses the end of April
FirstDay == <<2025, 4, 29>>

Users == {"u1", "u2"}

\* the user of the runs whose callers all sign the same user in
RaceUsers == {"u1"}

Procs == {"p1", "p2"}

\* the one caller of the runs without overlapping calls
SeqProcs == {"p1"}

(* ----------------------------- calendar -------------------------------- *)

IsLeap(y) == (y % 4 = 0) /\ ((y % 100 # 0) \/ (y % 400 = 0))

DaysInMonth(y, m) ==
    IF m = 2 THEN (IF IsLeap(y) THEN 29 ELSE 28)
    ELSE IF m \in {4, 6, 9, 11} THEN 30 ELSE 31

\* strptime(signDate, "%Y-%m-%d") succeeds
IsDate(s) ==
    /\ Len(s) = 3
    /\ s[2] \in 1..12
    /\ s[3] \in 1..DaysInMonth(s[1], s[2])

\* (strptime(signDate) - timedelta(days=1)).strftime("%Y-%m-%d")
prev_date(s) ==
    IF s[3] > 1 THEN <<s[1], s[2], s[3] - 1>>
    ELSE IF s[2] > 1 THEN <<s[1], s[2] - 1, DaysInMonth(s[1], s[2] - 1)>>
    ELSE <<s[1] - 1, 12, 31>>

\* the calendar day after s: the clock's next date
NextDay(s) ==
    IF s[3] < DaysInMonth(s[1], s[2]) THEN <<s[1], s[2], s[3] + 1>>
    ELSE IF s[2] < 12 THEN <<s[1], s[2] + 1, 1>>
    ELSE <<s[1] + 1, 1, 1>>

RECURSIVE AddDays(_, _)
AddDays(s, n) == IF n = 0 THEN s ELSE AddDays(NextDay(s), n - 1)

Dates == {AddDays(FirstDay, i) : i \in 0..(NumDays - 1)}

\* the signDate arguments of sign: a date of the window, or the default ""
DateArgs == Dates \cup {<<>>}

\* signDate arguments that are no calendar date: '2025-04-31'
BadDates == {<<2025, 4, 31>>}

\* every signDate a row of userSignLog can carry
SignDates == Dates \cup BadDates

\* signDate[:7]
MonthOf(s) == <<s[1], s[2]>>

(* ----------------------------- randomness ------------------------------ *)

\* the values one draw of the random source can take
Seeds == 0..(RandSamples - 1)

\* random.randint(a, b) when the draw is i: a value of a..b
randint(a, b, i) == a + ((b - a) * i) \div (RandSamples - 1)

\* the draws of one call of sign: one for each random.randint of the call, each
\* independent of the others
Draws == [base_exp : Seeds, base_point : Seeds, extra_exp : Seeds, extra_point : Seeds]

\* the lowest value of each random.randint of a call
LowDraw == [base_exp |-> 0, base_point |-> 0, extra_exp |-> 0, extra_point |-> 0]

\* the draws of the longer runs of concurrent callers, which are about the
\* counters of the summary and not about the rewards
RaceDraws == {LowDraw}

(* ------------------------------ storage -------------------------------- *)

EmptyDB ==
    [userSignLog |-> {},
     userSignSummary |-> {},
     user |-> [u \in Users |-> [exp |-> 0, point |-> 0]]]

\* rows of userSignLog with the primary key (uid, signDate)
LogRows(d, uid, signDate) ==
    {r \in d.userSignLog : r.uid = uid /\ r.signDate = signDate}

\* rows of userSignLog of one user
UserLog(d, uid) == {r \in d.userSignLog : r.uid = uid}

\* SELECT * FROM userSignSummary WHERE uid=? : fetchone() as a set of 0 or 1 rows
SummaryRows(d, uid) == {r \in d.userSignSummary : r.uid = uid}

\* the rows of the three tables that belong to uid
UserPart(d, uid) ==
    [userSignLog |-> UserLog(d, uid),
     userSignSummary |-> SummaryRows(d, uid),
     user |-> d.user[uid]]

\* the storage d with the rows of uid replaced by part
Restore(d, uid, part) ==
    [userSignLog |-> (d.userSignLog \ UserLog(d, uid)) \cup part.userSignLog,
     userSignSummary |-> (d.userSignSummary \ SummaryRows(d, uid))
                             \cup part.userSignSummary,
     user |-> [d.user EXCEPT ![uid] = part.user]]

\* the result of a statement: the storage after it, or the exception it raised
Ok(d) == [ok |-> TRUE, db |-> d]

Raised(d) == [ok |-> FALSE, db |-> d]

(* ------------------------- sign: pure computations --------------------- *)

Min(a, b) == IF a < b THEN a ELSE b

\* mutant: the last sign date is compared with signDate itself, not the day before
current_continuous_days_SameDay(summary_row, isSupplement, signDate) ==
    IF summary_row # {} /\ isSupplement = 0
    THEN LET row == CHOOSE r \in summary_row : TRUE
         IN IF row.lastSignDate = signDate
            THEN row.continuousDays + 1
            ELSE 1
    ELSE 1

\* the continuous days after this sign-in (current_continuous_days)
current_continuous_days(summary_row, isSupplement, signDate) ==
    IF summary_row # {} /\ isSupplement = 0
    THEN LET row == CHOOSE r \in summary_row : TRUE
         IN IF row.lastSignDate = prev_date(signDate)
            THEN row.continuousDays + 1
            ELSE 1
    ELSE 1

\* mutant: the bonus keeps growing after 30 days
days_factor_Uncapped(days) == days

\* days_factor = min(current_continuous_days, 30)
days_factor(days) == Min(days, 30)

\* extra_exp: 0, or a draw of [(days_factor-1)*8, (days_factor-1)*11]
extra_exp(days, isSupplement, i) ==
    IF days > 1 /\ isSupplement = 0
    THEN randint((days_factor(days) - 1) * 8, (days_factor(days) - 1) * 11, i)
    ELSE 0

\* extra_point: 0, or a draw of [(days_factor-1)*500, (days_factor-1)*1000]
extra_point(days, isSupplement, i) ==
    IF days > 1 /\ isSupplement = 0
    THEN randint((days_factor(days) - 1) * 500, (days_factor(days) - 1) * 1000, i)
    ELSE 0

\* int(x * 0.5) of a non-negative int
Halve(x) == x \div 2

\* final_exp = base_exp + extra_exp, halved for a supplement
final_exp(days, isSupplement, draw) ==
    LET sum == randint(5, 50, draw.base_exp)
               + extra_exp(days, isSupplement, draw.extra_exp)
    IN IF isSupplement = 1 THEN Halve(sum) ELSE sum

\* final_point = base_point + extra_point, halved for a supplement
final_point(days, isSupplement, draw) ==
    LET sum == randint(200, 2000, draw.base_point)
               + extra_point(days, isSupplement, draw.extra_point)
    IN IF isSupplement = 1 THEN Halve(sum) ELSE sum

(* --------------------------- read-only queries ------------------------- *)

\* SELECT COUNT(*) FROM userSignLog WHERE uid=? AND signDate LIKE 'monthStr-%';
\* 0 when the query raises
getUserSignCountByDate(d, uid, monthStr, fault) ==
    IF fault = "getCount" THEN 0
    ELSE Cardinality({r \in UserLog(d, uid) : MonthOf(r.signDate) = monthStr})

(* ---------------------- sign: the write transaction -------------------- *)

\* the statements of the write transaction where the storage can be made to fail
TxnFaults == {"insertLog", "writeSummary", "getExp", "setExp", "getPoint", "setPoint"}

\* the reads before the transaction where the storage can be made to fail
ReadFaults == {"hasSigned", "readSummary"}

\* mutant: userSignLog without its primary key
InsertLog_NoKey(d, c, fault) ==
    IF fault = "insertLog"
    THEN Raised(d)
    ELSE Ok([d EXCEPT !.userSignLog = @ \cup
                {[uid |-> c.uid, signDate |-> c.signDate,
                  isSupplement |-> c.isSupplement,
                  exp |-> c.final_exp, point |-> c.final_point]}])

\* mutant: INSERT OR REPLACE, the new row takes the place of the row of the key
InsertLog_Replace(d, c, fault) ==
    IF fault = "insertLog"
    THEN Raised(d)
    ELSE Ok([d EXCEPT !.userSignLog = (@ \ LogRows(d, c.uid, c.signDate)) \cup
                {[uid |-> c.uid, signDate |-> c.signDate,
                  isSupplement |-> c.isSupplement,
                  exp |-> c.final_exp, point |-> c.final_point]}])

\* INSERT INTO userSignLog ...: PRIMARY KEY (uid, signDate)
InsertLog(d, c, fault) ==
    IF fault = "insertLog" \/ LogRows(d, c.uid, c.signDate) # {}
    THEN Raised(d)
    ELSE Ok([d EXCEPT !.userSignLog = @ \cup
                {[uid |-> c.uid, signDate |-> c.signDate,
                  isSupplement |-> c.isSupplement,
                  exp |-> c.final_exp, point |-> c.final_point]}])

\* mutant: the total is written back as it was read
totalSignDays_Stale(row) == row.totalSignDays

\* totalSignDays = summary_row["totalSignDays"] + 1
totalSignDays(row) == row.totalSignDays + 1

\* monthSignDays: + 1 in the stored month, else 1
monthSignDays(row, currentMonth) ==
    IF row.currentMonth = currentMonth THEN row.monthSignDays + 1 ELSE 1

\* mutant: every sign-in is counted as a supplement
supplementCount_Always(row, isSupplement) == row.supplementCount + 1

\* supplementCount: + 1 for a supplement
supplementCount(row, isSupplement) ==
    IF isSupplement = 1 THEN row.supplementCount + 1 ELSE row.supplementCount

\* the date string a sorts before the date string b
Before(a, b) ==
    \/ a[1] < b[1]
    \/ a[1] = b[1] /\ a[2] < b[2]
    \/ a[1] = b[1] /\ a[2] = b[2] /\ a[3] < b[3]

\* mutant: lastSignDate keeps the latest calendar date that was signed
SummaryValues_KeepLatest(c) ==
    IF c.summary_row # {}
    THEN LET row == CHOOSE r \in c.summary_row : TRUE
         IN [uid |-> c.uid,
             totalSignDays |-> totalSignDays(row),
             currentMonth |-> MonthOf(c.signDate),
             monthSignDays |-> monthSignDays(row, MonthOf(c.signDate)),
             lastSignDate |-> IF Before(c.signDate, row.lastSignDate)
                              THEN row.lastSignDate ELSE c.signDate,
             continuousDays |-> c.current_continuous_days,
             supplementCount |-> supplementCount(row, c.isSupplement)]
    ELSE [uid |-> c.uid,
          totalSignDays |-> 1,
          currentMonth |-> MonthOf(c.signDate),
          monthSignDays |-> 1,
          lastSignDate |-> c.signDate,
          continuousDays |-> 1,
          supplementCount |-> IF c.isSupplement = 1 THEN 1 ELSE 0]

\* the summary row the call writes, from the summary row it read
SummaryValues(c) ==
    IF c.summary_row # {}
    THEN LET row == CHOOSE r \in c.summary_row : TRUE
         IN [uid |-> c.uid,
             totalSignDays |-> totalSignDays(row),
             currentMonth |-> MonthOf(c.signDate),
             monthSignDays |-> monthSignDays(row, MonthOf(c.signDate)),
             lastSignDate |-> c.signDate,
             continuousDays |-> c.current_continuous_days,
             supplementCount |-> supplementCount(row, c.isSupplement)]
    ELSE [uid |-> c.uid,
          totalSignDays |-> 1,
          currentMonth |-> MonthOf(c.signDate),
          monthSignDays |-> 1,
          lastSignDate |-> c.signDate,
          continuousDays |-> 1,
          supplementCount |-> IF c.isSupplement = 1 THEN 1 ELSE 0]

\* mutant: the UPDATE is run whether or not the call read a summary row
UpsertSummary_UpdateOnly(d, c, fault) ==
    IF fault = "writeSummary" THEN Raised(d)
    ELSE Ok([d EXCEPT !.userSignSummary =
                {IF r.uid = c.uid THEN SummaryValues(c) ELSE r : r \in @}])

\* UPDATE userSignSummary ... WHERE uid=?, or INSERT INTO userSignSummary
\* (uid is the PRIMARY KEY) when the call read no summary row
UpsertSummary(d, c, fault) ==
    IF fault = "writeSummary" THEN Raised(d)
    ELSE IF c.summary_row # {}
    THEN Ok([d EXCEPT !.userSignSummary =
                {IF r.uid = c.uid THEN SummaryValues(c) ELSE r : r \in @}])
    ELSE IF SummaryRows(d, c.uid) # {} THEN Raised(d)
    ELSE Ok([d EXCEPT !.userSignSummary = @ \cup {SummaryValues(c)}])

\* g_pDBService.user.getUserExpByUid / getUserPointByUid
getUserExpByUid(d, uid) == d.user[uid].exp

getUserPointByUid(d, uid) == d.user[uid].point

\* g_pDBService.user.updateUserExpByUid / updateUserPointByUid
updateUserExpByUid(d, uid, exp) == [d EXCEPT !.user[uid].exp = exp]

updateUserPointByUid(d, uid, point) == [d EXCEPT !.user[uid].point = point]

\* mutant: the two columns of the row are returned in the other order
getUserSignRewardByDate_Swapped(d, uid, date, fault) ==
    IF fault = "getReward" \/ LogRows(d, uid, date) = {} THEN <<0, 0>>
    ELSE LET row == CHOOSE r \in LogRows(d, uid, date) : TRUE
         IN <<row.point, row.exp>>

\* getUserSignRewardByDate(uid, date), the body of its transaction: SELECT exp,
\* point FROM userSignLog WHERE uid=? AND signDate=?; (0, 0) when there is no row
\* or the query raises
getUserSignRewardByDate(d, uid, date, fault) ==
    IF fault = "getReward" \/ LogRows(d, uid, date) = {} THEN <<0, 0>>
    ELSE LET row == CHOOSE r \in LogRows(d, uid, date) : TRUE
         IN <<row.exp, row.point>>

\* mutant: hasSigned never finds the row
hasSigned_Never(d, uid, signDate, fault) == FALSE

\* hasSigned(uid, signDate): a failing query is logged and answered False
hasSigned(d, uid, signDate, fault) ==
    IF fault = "hasSigned" THEN FALSE
    ELSE LogRows(d, uid, signDate) # {}

(* ------------------------------ the calls ------------------------------ *)

\* the rows of uid without the writes of the open transaction of uid
CommittedPart(uid) ==
    IF begun[uid] = {} THEN UserPart(db, uid) ELSE CHOOSE s \in begun[uid] : TRUE

\* the storage without the writes of the open transactions: what is left when
\* all of them are rolled back
Committed ==
    [userSignLog |-> UNION {CommittedPart(uid).userSignLog : uid \in Users},
     userSignSummary |-> UNION {CommittedPart(uid).userSignSummary : uid \in Users},
     user |-> [uid \in Users |-> CommittedPart(uid).user]]

\* cls._transaction(), entry: the block that writes the rows of uid is entered
\* when no other transaction on the rows of uid is open (one writer at a time
\* for a user); the transactions b of other users do not hold it back
Begin(b, uid) == b[uid] = {}

\* cls._transaction(), an exception left the body: the writes of the
\* transaction of uid are undone in the storage d
Rollback(d, b, uid) == Restore(d, uid, CHOOSE s \in b[uid] : TRUE)

\* cls._transaction(), the body ended: the writes of the transaction stay
Commit(d, b, uid) == d

\* a caller that has not called sign yet
IdleCall ==
    [pc |-> "idle", uid |-> "", signDate |-> <<>>, isSupplement |-> 0,
     summary_row |-> {}, current_continuous_days |-> 0,
     final_exp |-> 0, final_point |-> 0, currentExp |-> 0, currentPoint |-> 0,
     reward |-> <<0, 0>>, ret |-> -1, fault |-> "none", alone |-> TRUE,
     before |-> {}]

\* where a call of getUserSignRewardByDate can be: before its SELECT, before the
\* COMMIT or the ROLLBACK of its transaction
RewardPcs == {"getReward", "commitReward", "rollbackReward"}

\* the caller is not inside a call: it made none yet, its sign returned, or its
\* getUserSignRewardByDate answered
Free(c) == c.pc \in {"idle", "done", "answered"}

\* the call is between its first await and its return
Running(c) == ~Free(c)

\* sign returned ret and its locals are gone.  What stays until the caller's next
\* call is history: the arguments, the result, the fault the call met, whether it
\* was a supplement, and alone
Returned(c, ret, fault) ==
    [IdleCall EXCEPT !.pc = "done", !.uid = c.uid, !.signDate = c.signDate,
                     !.isSupplement = c.isSupplement, !.ret = ret,
                     !.fault = IF fault # "none" THEN fault ELSE c.fault,
                     !.alone = c.alone]

\* getUserSignRewardByDate returned reward; the arguments and the answer stay
\* until the caller's next call
Answered(c, reward, fault) ==
    [IdleCall EXCEPT !.pc = "answered", !.uid = c.uid, !.signDate = c.signDate,
                     !.reward = reward,
                     !.fault = IF fault # "none" THEN fault ELSE c.fault]

\* the tables after initDB, no open transaction and no call yet; budget is the
\* number of calls left
InitCalls(n) ==
    /\ db = EmptyDB
    /\ begun = [uid \in Users |-> {}]
    /\ today = FirstDay
    /\ call = [p \in Procs |-> IdleCall]
    /\ budget = n
    /\ accepted = [k \in Users \X SignDates |-> 0]

Init == InitCalls(MaxHardCalls)

\* the storage d after sign(uid, signDate), called on the day signDate and
\* drawing the lowest rewards, returned Success
SignedIn(d, uid, signDate) ==
    LET summary_row == SummaryRows(d, uid)
        days == current_continuous_days(summary_row, 0, signDate)
        c == [IdleCall EXCEPT
                !.uid = uid, !.signDate = signDate, !.isSupplement = 0,
                !.summary_row = summary_row, !.current_continuous_days = days,
                !.final_exp = final_exp(days, 0, LowDraw),
                !.final_point = final_point(days, 0, LowDraw)]
        logged == UpsertSummary(InsertLog(d, c, "none").db, c, "none").db
        paid == updateUserExpByUid(logged, uid,
                                   getUserExpByUid(logged, uid) + c.final_exp)
    IN updateUserPointByUid(paid, uid, getUserPointByUid(paid, uid) + c.final_point)

\* the storage d after uid signed in on each of the n days from day on; every
\* sign-in is applied to the storage that the one before it left
RECURSIVE SignedInDaily(_, _, _, _)
SignedInDaily(d, uid, day, n) ==
    IF n = 0 THEN d
    ELSE CHOOSE r \in {SignedInDaily(after, uid, next, n - 1) :
                          after \in {SignedIn(d, uid, day)},
                          next \in {NextDay(day)}} : TRUE

\* the day n days before the day s
RECURSIVE DaysBefore(_, _)
DaysBefore(s, n) == IF n = 0 THEN s ELSE DaysBefore(prev_date(s), n - 1)

\* the storage after uid signed in on each of the n days that end with the day
\* before the window
History(uid, n) == SignedInDaily(EmptyDB, uid, DaysBefore(FirstDay, n), n)

\* the lengths of the histories a run starts from: none, and the two around the
\* day on which the bonus stops growing
Histories == {0, MaxHistory - 1, MaxHistory}

\* the first user has signed in on each of the n days before the window, for an
\* n of Histories
InitStreak ==
    /\ \E n \in Histories : db = History("u1", n)
    /\ begun = [uid \in Users |-> {}]
    /\ today = FirstDay
    /\ call = [p \in Procs |-> IdleCall]
    /\ budget = MaxHardCalls
    /\ accepted = [k \in Users \X SignDates |-> 0]

InitLong == InitCalls(MaxCalls)

\* sign(uid, signDate) is called: an empty signDate becomes today's date, and
\* "if await cls.hasSigned(uid, signDate): return 2".  The SELECT runs on the
\* connection, so it sees the rows of an open transaction.
\* alone is history: only sign calls for the same (uid, signDate) have
\* overlapped this one; before is history too: the rows of uid when sign was
\* called
Sign_Start(p, uid, signDate, fault) ==
    LET date == IF signDate = <<>> THEN today ELSE signDate
        Other(q) == q # p /\ Running(call[q])
                         /\ (\/ call[q].pc \in RewardPcs
                             \/ <<call[q].uid, call[q].signDate>> # <<uid, date>>)
        c == [IdleCall EXCEPT
                !.pc = "summary", !.uid = uid, !.signDate = date, !.fault = fault,
                !.before = {UserPart(db, uid)},
                !.alone = ~ \E r \in Procs : Other(r)]
    IN /\ Free(call[p])
       /\ budget > 0
       /\ budget' = budget - 1
       /\ call' = [q \in Procs |->
                     IF q = p
                     THEN IF hasSigned(db, uid, date, fault)
                          THEN Returned(c, 2, fault)
                          ELSE c
                     ELSE IF Other(q) THEN [call[q] EXCEPT !.alone = FALSE]
                     ELSE call[q]]
       /\ UNCHANGED <<db, begun, today, accepted>>

\* todayStr, isSupplement, the read of the summary row, the continuous days and
\* the reward: everything from the return of hasSigned to the write transaction.
\* The SELECT runs on the connection, so it sees the rows of an open transaction.
\* draws are the values the random.randint of the call are taken from
Sign_Summary(p, fault, draws) ==
    LET c == call[p]
        isSupplement == IF c.signDate = today THEN 0 ELSE 1
        summary_row == SummaryRows(db, c.uid)
        days == current_continuous_days(summary_row, isSupplement, c.signDate)
    IN /\ c.pc = "summary"
       /\ IF fault = "readSummary"
             \/ (summary_row # {} /\ isSupplement = 0 /\ ~IsDate(c.signDate))
          THEN call' = [call EXCEPT
                          ![p] = Returned([c EXCEPT !.isSupplement = isSupplement],
                                          0, fault)]
          ELSE \E draw \in draws :
                 call' = [call EXCEPT
                            ![p].pc = "begin",
                            ![p].isSupplement = isSupplement,
                            ![p].summary_row = summary_row,
                            ![p].current_continuous_days = days,
                            ![p].final_exp = final_exp(days, isSupplement, draw),
                            ![p].final_point = final_point(days, isSupplement, draw)]
       /\ UNCHANGED <<db, begun, today, budget, accepted>>

\* async with cls._transaction(): the write transaction begins
Sign_Begin(p) ==
    LET c == call[p]
    IN /\ c.pc = "begin"
       /\ Begin(begun, c.uid)
       /\ call' = [call EXCEPT ![p].pc = "insertLog"]
       /\ begun' = [begun EXCEPT ![c.uid] = {UserPart(db, c.uid)}]
       /\ UNCHANGED <<db, today, budget, accepted>>

\* a statement inside "async with cls._transaction()" gave r: the call goes on
\* as next, or the exception leaves the block.  The ROLLBACK is an await of its
\* own: until it runs the transaction is open and its writes are on the
\* connection
Statement(p, r, next, fault) ==
    /\ IF r.ok
       THEN /\ db' = r.db
            /\ call' = [call EXCEPT ![p] = next]
       ELSE /\ db' = db
            /\ call' = [call EXCEPT
                           ![p].pc = "rollback",
                           ![p].fault = IF fault # "none" THEN fault ELSE @]
    /\ UNCHANGED <<begun, today, budget, accepted>>

\* mutant: the INSERT runs before the transaction begins, so that a later
\* exception does not undo it
Sign_InsertLog_Outside(p, fault) ==
    LET c == call[p]
        r == InsertLog(db, c, fault)
    IN /\ c.pc = "insertLog"
       /\ IF r.ok
          THEN /\ db' = r.db
               /\ call' = [call EXCEPT ![p].pc = "writeSummary"]
               /\ begun' = [begun EXCEPT ![c.uid] = {UserPart(r.db, c.uid)}]
          ELSE /\ db' = db
               /\ call' = [call EXCEPT ![p].pc = "rollback", ![p].fault = fault]
               /\ UNCHANGED begun
       /\ UNCHANGED <<today, budget, accepted>>

\* await cls.m_pDB.execute("INSERT INTO userSignLog ...")
Sign_InsertLog(p, fault) ==
    /\ call[p].pc = "insertLog"
    /\ Statement(p, InsertLog(db, call[p], fault),
                 [call[p] EXCEPT !.pc = "writeSummary"], fault)

\* await cls.m_pDB.execute("UPDATE userSignSummary ...") or
\* await cls.m_pDB.execute("INSERT INTO userSignSummary ...")
Sign_WriteSummary(p, fault) ==
    /\ call[p].pc = "writeSummary"
    /\ Statement(p, UpsertSummary(db, call[p], fault),
                 [call[p] EXCEPT !.pc = "getExp"], fault)

\* currentExp = await g_pDBService.user.getUserExpByUid(uid)
Sign_GetExp(p, fault) ==
    /\ call[p].pc = "getExp"
    /\ Statement(p, IF fault = "getExp" THEN Raised(db) ELSE Ok(db),
                 [call[p] EXCEPT !.pc = "setExp",
                                 !.currentExp = getUserExpByUid(db, call[p].uid)],
                 fault)

\* mutant: the balance is set to the reward, not raised by it
Sign_SetExp_Overwrite(p, fault) ==
    /\ call[p].pc = "setExp"
    /\ Statement(p, IF fault = "setExp" THEN Raised(db)
                    ELSE Ok(updateUserExpByUid(db, call[p].uid, call[p].final_exp)),
                 [call[p] EXCEPT !.pc = "getPoint"], fault)

\* await g_pDBService.user.updateUserExpByUid(uid, currentExp + final_exp)
Sign_SetExp(p, fault) ==
    /\ call[p].pc = "setExp"
    /\ Statement(p, IF fault = "setExp" THEN Raised(db)
                    ELSE Ok(updateUserExpByUid(db, call[p].uid,
                                call[p].currentExp + call[p].final_exp)),
                 [call[p] EXCEPT !.pc = "getPoint"], fault)

\* currentPoint = await g_pDBService.user.getUserPointByUid(uid)
Sign_GetPoint(p, fault) ==
    /\ call[p].pc = "getPoint"
    /\ Statement(p, IF fault = "getPoint" THEN Raised(db) ELSE Ok(db),
                 [call[p] EXCEPT !.pc = "setPoint",
                                 !.currentPoint = getUserPointByUid(db, call[p].uid)],
                 fault)

\* await g_pDBService.user.updateUserPointByUid(uid, currentPoint + final_point)
Sign_SetPoint(p, fault) ==
    /\ call[p].pc = "setPoint"
    /\ Statement(p, IF fault = "setPoint" THEN Raised(db)
                    ELSE Ok(updateUserPointByUid(db, call[p].uid,
                                call[p].currentPoint + call[p].final_point)),
                 [call[p] EXCEPT !.pc = "commit"], fault)

\* the end of "async with cls._transaction()": COMMIT, and return 1
Sign_Commit(p) ==
    LET c == call[p]
    IN /\ c.pc = "commit"
       /\ db' = Commit(db, begun, c.uid)
       /\ begun' = [begun EXCEPT ![c.uid] = {}]
       /\ call' = [call EXCEPT ![p] = Returned(c, 1, "none")]
       /\ accepted' = [accepted EXCEPT ![<<c.uid, c.signDate>>] = @ + 1]
       /\ UNCHANGED <<today, budget>>

\* an exception left "async with cls._transaction()": ROLLBACK, then
\* "except Exception" returns 0
Sign_Rollback(p) ==
    LET c == call[p]
    IN /\ c.pc = "rollback"
       /\ db' = Rollback(db, begun, c.uid)
       /\ begun' = [begun EXCEPT ![c.uid] = {}]
       /\ call' = [call EXCEPT ![p] = Returned(c, 0, "none")]
       /\ UNCHANGED <<today, budget, accepted>>

\* getUserSignRewardByDate(uid, date) is called and "async with
\* cls._transaction()" begins its transaction.  The sign calls it overlaps are
\* not alone
Reward_Begin(p, uid, date) ==
    LET c == [IdleCall EXCEPT !.pc = "getReward", !.uid = uid, !.signDate = date]
    IN /\ Free(call[p])
       /\ budget > 0
       /\ Begin(begun, uid)
       /\ budget' = budget - 1
       /\ call' = [q \in Procs |->
                     IF q = p THEN c
                     ELSE IF Running(call[q]) THEN [call[q] EXCEPT !.alone = FALSE]
                     ELSE call[q]]
       /\ begun' = [begun EXCEPT ![uid] = {UserPart(db, uid)}]
       /\ UNCHANGED <<db, today, accepted>>

\* the SELECT of getUserSignRewardByDate and the value its body returns; when
\* the SELECT raises, the exception leaves the block
Reward_Select(p, fault) ==
    LET c == call[p]
    IN /\ c.pc = "getReward"
       /\ IF fault = "getReward"
          THEN call' = [call EXCEPT ![p].pc = "rollbackReward", ![p].fault = fault]
          ELSE call' = [call EXCEPT
                          ![p].pc = "commitReward",
                          ![p].reward = getUserSignRewardByDate(db, c.uid,
                                                                c.signDate, fault)]
       /\ UNCHANGED <<db, begun, today, budget, accepted>>

\* the end of the block of getUserSignRewardByDate: COMMIT, and the value is
\* returned
Reward_Commit(p) ==
    LET c == call[p]
    IN /\ c.pc = "commitReward"
       /\ db' = Commit(db, begun, c.uid)
       /\ begun' = [begun EXCEPT ![c.uid] = {}]
       /\ call' = [call EXCEPT ![p] = Answered(c, c.reward, "none")]
       /\ UNCHANGED <<today, budget, accepted>>

\* the SELECT of getUserSignRewardByDate raised: ROLLBACK, then "except
\* Exception" returns (0, 0)
Reward_Rollback(p) ==
    LET c == call[p]
    IN /\ c.pc = "rollbackReward"
       /\ db' = Rollback(db, begun, c.uid)
       /\ begun' = [begun EXCEPT ![c.uid] = {}]
       /\ call' = [call EXCEPT
                     ![p] = Answered(c, getUserSignRewardByDate(db, c.uid, c.signDate,
                                                                c.fault), "none")]
       /\ UNCHANGED <<today, budget, accepted>>

\* midnight: date.today() moves to the next day
Tick ==
    /\ NextDay(today) \in Dates
    /\ today' = NextDay(today)
    /\ UNCHANGED <<db, begun, call, budget, accepted>>

\* the statements of the write transaction of the callers ps, with no injected
\* fault
Transaction(ps) ==
    \/ \E p \in ps : Sign_Begin(p)
    \/ \E p \in ps : Sign_InsertLog(p, "none")
    \/ \E p \in ps : Sign_WriteSummary(p, "none")
    \/ \E p \in ps : Sign_GetExp(p, "none")
    \/ \E p \in ps : Sign_SetExp(p, "none")
    \/ \E p \in ps : Sign_GetPoint(p, "none")
    \/ \E p \in ps : Sign_SetPoint(p, "none")
    \/ \E p \in ps : Sign_Commit(p)

\* the steps of getUserSignRewardByDate calls of the callers ps for the users
\* us, none of them failing
Reward(ps, us) ==
    \/ \E p \in ps, uid \in us, date \in Dates : Reward_Begin(p, uid, date)
    \/ \E p \in ps : Reward_Select(p, "none")
    \/ \E p \in ps : Reward_Commit(p)

\* concurrent callers, no injected storage fault
Next ==
    \/ \E p \in Procs, uid \in Users, signDate \in DateArgs :
          Sign_Start(p, uid, signDate, "none")
    \/ \E p \in Procs : Sign_Summary(p, "none", Draws)
    \/ Transaction(Procs)
    \/ \E p \in Procs : Sign_Rollback(p)
    \/ Reward(Procs, Users)
    \/ Tick

Spec == Init /\ [][Next]_vars

\* concurrent callers that all sign the same user in, longer runs
NextRace ==
    \/ \E p \in Procs, uid \in RaceUsers, signDate \in DateArgs :
          Sign_Start(p, uid, signDate, "none")
    \/ \E p \in Procs : Sign_Summary(p, "none", RaceDraws)
    \/ Transaction(Procs)
    \/ \E p \in Procs : Sign_Rollback(p)
    \/ Reward(Procs, RaceUsers)
    \/ Tick

SpecRace == InitLong /\ [][NextRace]_vars

\* one caller, whose calls never overlap; no injected storage fault
NextSeq ==
    \/ \E p \in SeqProcs, uid \in Users, signDate \in DateArgs :
          Sign_Start(p, uid, signDate, "none")
    \/ \E p \in SeqProcs : Sign_Summary(p, "none", Draws)
    \/ Transaction(SeqProcs)
    \/ Tick

SpecSeq == InitLong /\ [][NextSeq]_vars

\* one caller, whose calls never overlap, after a history of daily sign-ins
SpecStreak == InitStreak /\ [][NextSeq]_vars

\* one caller, whose calls never overlap; every storage access may fail
NextFault ==
    \/ \E p \in SeqProcs, uid \in Users, signDate \in DateArgs,
          fault \in {"none", "hasSigned"} :
          Sign_Start(p, uid, signDate, fault)
    \/ \E p \in SeqProcs, fault \in {"none", "readSummary"} :
          Sign_Summary(p, fault, Draws)
    \/ \E p \in SeqProcs : Sign_Begin(p)
    \/ \E p \in SeqProcs, fault \in {"none", "insertLog"} : Sign_InsertLog(p, fault)
    \/ \E p \in SeqProcs, fault \in {"none", "writeSummary"} : Sign_WriteSummary(p, fault)
    \/ \E p \in SeqProcs, fault \in {"none", "getExp"} : Sign_GetExp(p, fault)
    \/ \E p \in SeqProcs, fault \in {"none", "setExp"} : Sign_SetExp(p, fault)
    \/ \E p \in SeqProcs, fault \in {"none", "getPoint"} : Sign_GetPoint(p, fault)
    \/ \E p \in SeqProcs, fault \in {"none", "setPoint"} : Sign_SetPoint(p, fault)
    \/ \E p \in SeqProcs : Sign_Commit(p)
    \/ \E p \in SeqProcs : Sign_Rollback(p)
    \/ \E p \in SeqProcs, uid \in Users, date \in Dates : Reward_Begin(p, uid, date)
    \/ \E p \in SeqProcs, fault \in {"none", "getReward"} : Reward_Select(p, fault)
    \/ \E p \in SeqProcs : Reward_Commit(p)
    \/ \E p \in SeqProcs : Reward_Rollback(p)
    \/ Tick

SpecFault == Init /\ [][NextFault]_vars

\* concurrent callers that all sign the same user in; every statement of the
\* write transaction may fail
NextFaultRace ==
    \/ \E p \in Procs, uid \in RaceUsers, signDate \in DateArgs :
          Sign_Start(p, uid, signDate, "none")
    \/ \E p \in Procs : Sign_Summary(p, "none", Draws)
    \/ \E p \in Procs : Sign_Begin(p)
    \/ \E p \in Procs, fault \in {"none", "insertLog"} : Sign_InsertLog(p, fault)
    \/ \E p \in Procs, fault \in {"none", "writeSummary"} : Sign_WriteSummary(p, fault)
    \/ \E p \in Procs, fault \in {"none", "getExp"} : Sign_GetExp(p, fault)
    \/ \E p \in Procs, fault \in {"none", "setExp"} : Sign_SetExp(p, fault)
    \/ \E p \in Procs, fault \in {"none", "getPoint"} : Sign_GetPoint(p, fault)
    \/ \E p \in Procs, fault \in {"none", "setPoint"} : Sign_SetPoint(p, fault)
    \/ \E p \in Procs : Sign_Commit(p)
    \/ \E p \in Procs : Sign_Rollback(p)
    \/ Reward(Procs, RaceUsers)
    \/ Tick

SpecFaultRace == Init /\ [][NextFaultRace]_vars

\* one caller that also passes signDate arguments that are no calendar date
NextBad ==
    \/ \E p \in SeqProcs, uid \in Users, signDate \in DateArgs \cup BadDates :
          Sign_Start(p, uid, signDate, "none")
    \/ \E p \in SeqProcs : Sign_Summary(p, "none", Draws)
    \/ Transaction(SeqProcs)
    \/ Tick

SpecBad == Init /\ [][NextBad]_vars

(* ------------------------------ the claims ----------------------------- *)

\* p takes the step that calls sign
Starts(p) == budget' = budget - 1 /\ Free(call[p])
                /\ call'[p].pc \in {"summary", "done"}
                /\ \A q \in Procs \ {p} : call'[q].pc = call[q].pc /\ call'[q].ret = call[q].ret

\* p takes the last step of its write transaction, COMMIT or ROLLBACK, and sign
\* returns ret; Committed is then the storage as it was before the transaction
Commits(p, ret) ==
    /\ call[p].pc \in {"commit", "rollback"}
    /\ call'[p].pc = "done" /\ call'[p].ret = ret

\* where a sign call is inside its write transaction
TxnPcs == {"insertLog", "writeSummary", "getExp", "setExp", "getPoint", "setPoint",
           "commit", "rollback"}

\* no sign call is inside its write transaction
NoTxn == \A p \in Procs : call[p].pc \notin TxnPcs

\* no call is between its first await and its return
Quiet == \A p \in Procs : ~Running(call[p])

\* the summary row of a user that has one
SummaryOf(d, uid) == CHOOSE r \in SummaryRows(d, uid) : TRUE

\* the number of sign calls for uid that returned Success
AcceptedCalls(uid) ==
    Cardinality({k \in Dates \X (1..MaxCalls) : k[2] <= accepted[<<uid, k[1]>>]})

RECURSIVE SumExp(_)
SumExp(rows) ==
    IF rows = {} THEN 0
    ELSE LET r == CHOOSE x \in rows : TRUE IN r.exp + SumExp(rows \ {r})

RECURSIVE SumPoint(_)
SumPoint(rows) ==
    IF rows = {} THEN 0
    ELSE LET r == CHOOSE x \in rows : TRUE IN r.point + SumPoint(rows \ {r})

\* C1: when sign(u, d) has returned Success and the caller's next call is
\* sign(u, d) again, that call returns AlreadySigned and the log, the summary and
\* the ledger stay as the first call left them.
C1_Idempotent ==
    [][\A p \in SeqProcs :
          (/\ Starts(p)
           /\ call[p].pc = "done" /\ call[p].ret = 1
           /\ call'[p].uid = call[p].uid
           /\ call'[p].signDate = call[p].signDate)
          => (call'[p].pc = "done" /\ call'[p].ret = 2 /\ db' = db)]_vars

\* C1 witness: the second of two calls returned AlreadySigned, so the first call
\* had written the row of the same (user, date)
C1_Witness ==
    \E p \in SeqProcs :
        /\ budget = MaxCalls - 2
        /\ call[p].pc = "done" /\ call[p].ret = 2
        /\ accepted[<<call[p].uid, call[p].signDate>>] = 1

\* C2: sign calls for one (user, date) that has no log row yet, overlapping only
\* each other, end with exactly one Success once all of them have returned; no
\* (user, date) ever gets two Successes, and the committed log holds one row per
\* Success.
C2_OneSuccess ==
    /\ \A k \in Users \X Dates :
          /\ accepted[k] <= 1
          /\ Cardinality(LogRows(Committed, k[1], k[2])) = accepted[k]
    /\ \A p \in Procs :
          (/\ call[p].pc = "done" /\ call[p].ret \in {0, 1} /\ call[p].alone
           /\ \A q \in Procs :
                 Running(call[q])
                 => <<call[q].uid, call[q].signDate>>
                        # <<call[p].uid, call[p].signDate>>)
          => accepted[<<call[p].uid, call[p].signDate>>] = 1

\* C2 witness: two overlapping calls for the same (user, date) are over, one with
\* Success and one without
C2_Witness ==
    \E p, q \in Procs :
        /\ p # q
        /\ call[p].pc = "done" /\ call[q].pc = "done"
        /\ call[p].uid = call[q].uid /\ call[p].signDate = call[q].signDate
        /\ call[p].alone /\ call[q].alone
        /\ call[p].ret = 1 /\ call[q].ret = 0

\* C3: once all calls have returned, totalSignDays of a user equals the number
\* of that user's calls that returned Success, and the number of its log rows.
C3_TotalCountsAccepted ==
    Quiet => \A uid \in Users : \A r \in SummaryRows(db, uid) :
                /\ r.totalSignDays = AcceptedCalls(uid)
                /\ r.totalSignDays = Cardinality(UserLog(db, uid))

\* C4: with calls that do not overlap, whatever they return, and outside the
\* write transaction of a call, totalSignDays of every summary row equals the
\* number of log rows of its user.
C4_TotalIsLogCount ==
    NoTxn => \A r \in db.userSignSummary :
                r.totalSignDays = Cardinality(UserLog(db, r.uid))

\* C4 witness: a user signed once, and a second call of that user failed inside
\* the transaction
C4_Witness ==
    \E p \in SeqProcs :
        /\ call[p].pc = "done" /\ call[p].ret = 0 /\ call[p].fault \in TxnFaults
        /\ \E r \in SummaryRows(db, call[p].uid) : r.totalSignDays = 1

\* C5: with calls that do not overlap, and outside the write transaction of a
\* call, monthSignDays of every summary row equals the number of log rows of its
\* user whose date lies in currentMonth.
C5_MonthIsLogCount ==
    NoTxn => \A r \in db.userSignSummary :
                r.monthSignDays
                    = getUserSignCountByDate(db, r.uid, r.currentMonth, "none")

\* C6: a successful supplement sign-in of a user that has a summary row leaves
\* continuousDays as it was and raises supplementCount by one.
C6_SupplementKeepsStreak ==
    [][\A p \in SeqProcs :
          (/\ Commits(p, 1)
           /\ call[p].isSupplement = 1
           /\ SummaryRows(Committed, call[p].uid) # {})
          => /\ SummaryOf(db', call[p].uid).continuousDays
                  = SummaryOf(Committed, call[p].uid).continuousDays
             /\ SummaryOf(db', call[p].uid).supplementCount
                  = SummaryOf(Committed, call[p].uid).supplementCount + 1]_vars

\* C7: a successful sign-in for today's date D sets continuousDays to the stored
\* continuousDays + 1 when the stored lastSignDate is the day before D, and to 1
\* when there is no summary row or lastSignDate is any other date.
C7_Streak ==
    [][\A p \in SeqProcs :
          (Commits(p, 1) /\ call[p].isSupplement = 0)
          => SummaryOf(db', call[p].uid).continuousDays
               = IF /\ SummaryRows(Committed, call[p].uid) # {}
                    /\ IsDate(SummaryOf(Committed, call[p].uid).lastSignDate)
                    /\ NextDay(SummaryOf(Committed, call[p].uid).lastSignDate)
                          = call[p].signDate
                 THEN SummaryOf(Committed, call[p].uid).continuousDays + 1
                 ELSE 1]_vars

\* C7 witness: three sign-ins on three consecutive days, none a supplement, give
\* continuousDays = 3
C7_Witness ==
    \E r \in db.userSignSummary :
        /\ r.continuousDays = 3
        /\ \A x \in UserLog(db, r.uid) : x.isSupplement = 0
        /\ Cardinality(UserLog(db, r.uid)) = 3

\* C8: when a call returns Failure because a statement of the write transaction
\* failed, the log rows, the summary row and the two balances of its user are
\* what they were when sign was called, and no transaction of the user is open.
C8_FailureIsAtomic ==
    [][\A p \in SeqProcs :
          Commits(p, 0)
          => /\ call[p].before = {UserPart(db', call[p].uid)}
             /\ begun'[call[p].uid] = {}]_vars

\* C8 witness: the last ledger statement failed, after the log insert, the
\* summary write and the exp update of the same transaction
C8_Witness ==
    \E p \in SeqProcs :
        /\ call[p].pc = "done" /\ call[p].ret = 0 /\ call[p].fault = "setPoint"
        /\ LogRows(db, call[p].uid, call[p].signDate) = {}

\* C9: the row of a non-supplement sign-in whose streak is s has, with
\* d = min(s, 30), exp in [5 + 8(d-1), 50 + 11(d-1)] and point in
\* [200 + 500(d-1), 2000 + 1000(d-1)]; the row of a supplement has exp = b \div 2
\* for a b in 5..50 and point = q \div 2 for a q in 200..2000.
C9_RewardBounds ==
    [][\A p \in Procs :
          Commits(p, 1)
          => \A r \in db'.userSignLog \ Committed.userSignLog :
               LET s == SummaryOf(db', r.uid).continuousDays
                   d == IF s < 30 THEN s ELSE 30
               IN IF r.isSupplement = 0
                  THEN /\ 5 + 8 * (d - 1) <= r.exp
                       /\ r.exp <= 50 + 11 * (d - 1)
                       /\ 200 + 500 * (d - 1) <= r.point
                       /\ r.point <= 2000 + 1000 * (d - 1)
                  ELSE /\ \E b \in 5..50 : r.exp = b \div 2
                       /\ \E q \in 200..2000 : r.point = q \div 2]_vars

\* C9 witness: the sign-in of day 31 of a streak returned Success, and its row
\* has the lowest base exp with the highest exp bonus of day 30 and the highest
\* base point with the lowest point bonus of day 30
C9_Witness ==
    /\ NoTxn
    /\ \E r \in db.userSignLog :
          /\ r.isSupplement = 0
          /\ SummaryOf(db, r.uid).lastSignDate = r.signDate
          /\ SummaryOf(db, r.uid).continuousDays = 31
          /\ r.exp = 5 + 11 * 29
          /\ r.point = 2000 + 500 * 29

\* C10: under every interleaving, in every state where no sign transaction is in
\* progress, the exp and point balances of every user equal the initial balances
\* plus the sums of exp and point over the user's log rows.
C10_LedgerIsLogSum ==
    NoTxn =>
    \A uid \in Users :
        /\ db.user[uid].exp = EmptyDB.user[uid].exp + SumExp(UserLog(db, uid))
        /\ db.user[uid].point = EmptyDB.user[uid].point + SumPoint(UserLog(db, uid))

\* C10 witness: both callers signed the same user in, and its balances hold the
\* rewards of both rows
C10_Witness ==
    \E uid \in Users :
        /\ \A p \in Procs : call[p].pc = "done" /\ call[p].ret = 1 /\ call[p].uid = uid
        /\ Cardinality(UserLog(db, uid)) = 2
        /\ db.user[uid].point >= 200 + 200

\* C11: the isSupplement a call computes, when it reads today's date, is 1 if and
\* only if its signDate is strictly before today, and the row it writes carries
\* that isSupplement; a date of today or after today is no supplement.
C11_SupplementIffPast ==
    [][\A p \in SeqProcs :
          /\ (call[p].pc = "summary" /\ call'[p].pc = "begin")
             => (call'[p].isSupplement = 1 <=> Before(call[p].signDate, today))
          /\ Commits(p, 1)
             => \A r \in db'.userSignLog \ Committed.userSignLog :
                   r.isSupplement = call[p].isSupplement]_vars

\* C12: a call whose signDate is not empty and no calendar date is rejected
\* before any storage access: it never waits for the summary read or the write
\* transaction, never returns Success, and leaves no log row of that signDate.
C12_BadDateRejected ==
    /\ \A p \in SeqProcs :
          (call[p].pc # "idle" /\ ~IsDate(call[p].signDate))
          => (call[p].pc = "done" /\ call[p].ret # 1)
    /\ \A r \in db.userSignLog : IsDate(r.signDate)

\* C13: a call that met a storage fault, the fault of the hasSigned lookup
\* included, has returned Failure (0), never Success (1) nor AlreadySigned (2).
C13_FaultIsFailure ==
    \A p \in SeqProcs :
        (call[p].pc = "done" /\ call[p].fault # "none") => call[p].ret = 0

\* p takes the step in which its getUserSignRewardByDate call returns
Answers(p) ==
    /\ call'[p].pc = "answered"
    /\ call[p].pc \in RewardPcs

\* the exp and point of the committed log row of (uid, date), (0, 0) without one
Recorded(uid, date) ==
    IF LogRows(Committed', uid, date) = {} THEN {<<0, 0>>}
    ELSE {<<r.exp, r.point>> : r \in LogRows(Committed', uid, date)}

\* C14: every getUserSignRewardByDate(uid, date) call returns the exp and point
\* of the log row that a successful sign(uid, date) wrote, and (0, 0) when no
\* such row exists; no step of the call changes the log, the summary or the
\* ledger.
C14_RewardLookup ==
    [][\A p \in Procs :
          /\ Answers(p)
             => call'[p].reward \in Recorded(call'[p].uid, call'[p].signDate)
          /\ (Answers(p) \/ (call[p].pc \in RewardPcs /\ call'[p] # call[p]))
             => db' = db]_vars

\* C14, amended: a getUserSignRewardByDate(uid, date) call whose SELECT raised
\* returns (0, 0); every other call returns the exp and point of the log row
\* that a successful sign(uid, date) wrote, and (0, 0) when no such row exists;
\* no step of the call changes the log, the summary or the ledger.
C14_RewardLookupOrZero ==
    [][\A p \in Procs :
          /\ Answers(p)
             => IF call'[p].fault = "getReward"
                THEN call'[p].reward = <<0, 0>>
                ELSE call'[p].reward \in Recorded(call'[p].uid, call'[p].signDate)
          /\ (Answers(p) \/ (call[p].pc \in RewardPcs /\ call'[p] # call[p]))
             => db' = db]_vars

\* C14 witness: a lookup whose SELECT did not raise answered the exp and point
\* of a log row that has two different non-zero values
C14_Witness ==
    \E p \in SeqProcs :
        /\ call[p].pc = "answered" /\ call[p].fault = "none"
        /\ \E r \in LogRows(db, call[p].uid, call[p].signDate) :
              /\ call[p].reward = <<r.exp, r.point>>
              /\ r.exp > 0 /\ r.point > r.exp

\* C15: outside the write transaction of a call, a summary with
\* lastSignDate = D and continuousDays = k is backed by a
\* non-supplement log row of the user for each of the k dates D, D-1, ...,
\* D-(k-1): a supplemented day never counts towards continuousDays.
C15_StreakBackedByLog ==
    NoTxn =>
    \A uid \in Users :
        SummaryRows(db, uid) # {}
        => LET s == SummaryOf(db, uid)
           IN \A i \in 0 .. (s.continuousDays - 1) :
                 \E r \in LogRows(db, uid, DaysBefore(s.lastSignDate, i)) :
                     r.isSupplement = 0

\* C16: no stale summary read: when the transaction of a call commits, the
\* summary row the call read to compute its streak and counters is the summary
\* row that was stored when the transaction began.
C16_NoStaleSummary ==
    [][\A p \in Procs :
          Commits(p, 1)
          => call[p].summary_row = SummaryRows(Committed, call[p].uid)]_vars

\* C17: log rows are immutable: a Success for (uid, signDate) leaves a log row
\* of that key, and every committed row of the log is still there, unchanged and
\* alone for its key, after every later step of any call, whatever that call
\* returns.
C17_LogImmutable ==
    [][/\ \A p \in SeqProcs :
             Commits(p, 1) => LogRows(db', call[p].uid, call[p].signDate) # {}
       /\ \A r \in Committed.userSignLog :
             /\ LogRows(db', r.uid, r.signDate) = {r}
             /\ LogRows(Committed', r.uid, r.signDate) = {r}]_vars

\* the log holds a row of (uid, signDate), and a later call for that same key,
\* whose hasSigned lookup failed, ran its transaction and returned Failure
C17_Witness ==
    /\ call["p1"].pc = "done" /\ call["p1"].ret = 0
    /\ call["p1"].fault = "hasSigned"
    /\ LogRows(db, call["p1"].uid, call["p1"].signDate) # {}
    /\ budget = 0

\* C18: log and summary are written in lockstep: after every step of every
\* interleaving that leaves no transaction in progress a user has a summary row
\* if and only if the user has at least one log row, and a committed summary row
\* is never removed.
C18_Lockstep ==
    [][\A uid \in Users :
          /\ NoTxn' => (SummaryRows(db', uid) # {} <=> UserLog(db', uid) # {})
          /\ SummaryRows(Committed, uid) # {} => SummaryRows(Committed', uid) # {}]_vars

\* two first-ever sign-ins of one user for two dates overlapped: one returned
\* Success, the other Failure, and the user has one log row and a summary row
C18_Witness ==
    /\ call["p1"].pc = "done" /\ call["p2"].pc = "done"
    /\ call["p1"].uid = call["p2"].uid
    /\ call["p1"].signDate # call["p2"].signDate
    /\ ~call["p1"].alone /\ ~call["p2"].alone
    /\ call["p1"].ret = 1 /\ call["p2"].ret = 0
    /\ budget = 0
    /\ Cardinality(UserLog(db, call["p1"].uid)) = 1
    /\ SummaryRows(db, call["p1"].uid) # {}

\* lastSignDate and currentMonth of the summary row of uid, if there is one
LastSign(d, uid) == {<<r.lastSignDate, r.currentMonth>> : r \in SummaryRows(d, uid)}

\* C19: when sign(uid, D) returns Success, supplement or not, the summary of uid
\* has lastSignDate = D and currentMonth = the YYYY-MM of D, even when D is
\* before the lastSignDate stored until then; the step at which a call returns
\* AlreadySigned (2) or Failure (0) leaves both fields of every user unchanged.
C19_LastSignDate ==
    [][\A p \in SeqProcs :
          /\ Commits(p, 1)
             => LastSign(db', call[p].uid)
                    = {<<call[p].signDate,
                         <<call[p].signDate[1], call[p].signDate[2]>>>>}
          /\ (call'[p] # call[p] /\ call'[p].pc = "done" /\ call'[p].ret \in {0, 2})
             => \A uid \in Users : LastSign(db', uid) = LastSign(Committed, uid)]_vars

\* a supplement for a date before the stored lastSignDate returned Success: the
\* user has a log row of a later date, and lastSignDate is the earlier date
C19_Witness ==
    /\ call["p1"].pc = "done" /\ call["p1"].ret = 1
    /\ call["p1"].isSupplement = 1
    /\ \E r \in UserLog(db, call["p1"].uid) : Before(call["p1"].signDate, r.signDate)
    /\ LastSign(db, call["p1"].uid)
           = {<<call["p1"].signDate, MonthOf(call["p1"].signDate)>>}

\* C20: outside the write transaction of a call, for every user with a
\* summary row, supplementCount is the number of the
\* user's log rows with isSupplement = 1, also when the user's first sign-in
\* was a supplement.
C20_SupplementCount ==
    NoTxn =>
    \A uid \in Users :
        SummaryRows(db, uid) # {}
        => SummaryOf(db, uid).supplementCount
               = Cardinality({r \in UserLog(db, uid) : r.isSupplement = 1})

\* the user's first sign-in was a supplement and a sign-in of today followed:
\* two log rows, one of them a supplement, and supplementCount = 1
C20_Witness ==
    /\ call["p1"].pc = "done" /\ call["p1"].ret = 1
    /\ call["p1"].isSupplement = 0
    /\ Cardinality(UserLog(db, call["p1"].uid)) = 2
    /\ \E r \in UserLog(db, call["p1"].uid) : r.isSupplement = 1
    /\ SummaryOf(db, call["p1"].uid).supplementCount = 1

====
